---- MODULE Spec2Model ----
(***************************************************************************)
(* MangaMaker AI (src/app.py): one Streamlit script run that resolves the  *)
(* API key, validates the uploaded images, fans num_images generation      *)
(* calls out over a ThreadPoolExecutor of min(num_images, 4) threads,      *)
(* drains them with concurrent.futures.as_completed, and stores the        *)
(* collected images in st.session_state.generated_images.                  *)
(***************************************************************************)
EXTENDS Integers, Sequences, FiniteSets, TLC

(* ---------------- bounds of the model ---------------- *)
MaxImages == 5      \* largest slider value explored (the slider allows up to SliderMax)
MaxParts  == 3      \* longest parts list of a response explored

(* ---------------- program constants ---------------- *)
SliderMin == 1      \* st.slider("生成枚数", 1, 10, 2)
SliderMax == 10
WorkerCap == 4      \* workers = min(num_images, 4)

Min(a, b) == IF a <= b THEN a ELSE b

Jobs == 1..MaxImages
Counts == SliderMin..Min(SliderMax, MaxImages)

VARIABLES
    pc,                 \* position of the script thread: "idle", "submit", "drain", "done"
    halt,               \* why the last script run ended before line 172 or refused to run
    api_key,            \* TRUE when a non-empty key was resolved (lines 110-116)
    client,             \* TRUE when genai.Client(...) was constructed (line 120)
    char_files,         \* TRUE when at least one character image is uploaded (line 130)
    pose_file,          \* TRUE when a pose image is uploaded (line 136)
    num_images,         \* slider value (line 146); 0 when the slider was not reached
    generate_btn,       \* TRUE when this script run was triggered by the button (line 161)
    generated_images,   \* st.session_state.generated_images
    status,             \* what status_text shows
    progress,           \* what progress_bar shows
    results,            \* local list `results` (line 203)
    errors,             \* number of messages shown with st.error in the loop (line 222)
    fut,                \* the futures: state and result of every job
    work_queue,         \* the executor's FIFO work queue
    num_threads,        \* worker threads the executor has started
    max_workers,        \* the executor's max_workers
    pending,            \* as_completed: futures not yet yielded
    snapshot,           \* as_completed: futures found finished at the start, not yet yielded
    waiter,             \* as_completed: futures finished since, not yet yielded
    installed,          \* as_completed: TRUE once the waiter is installed on the futures
    i,                  \* loop iterations completed (the enumerate index of the next one)
    completion,         \* history: the finished futures not yet yielded, in the order they finished
    response,           \* classification: the raw response handed to generate_single_image
    outcome             \* classification: what generate_single_image returned for it

vars == <<pc, halt, api_key, client, char_files, pose_file, num_images,
          generate_btn, generated_images, status, progress, results, errors,
          fut, work_queue, num_threads, max_workers, pending, snapshot, waiter,
          installed, i, completion, response, outcome>>

inputVars   == <<api_key, client, char_files, pose_file, num_images, generate_btn>>
poolVars    == <<fut, work_queue, num_threads, max_workers>>
drainVars   == <<pending, snapshot, waiter, installed, i, completion>>
uiVars      == <<status, progress, results, errors>>
harnessVars == <<response, outcome>>

(* ---------------- values ---------------- *)
\* What generate_single_image returns: bytes, str, or (never, in this code) None.
\* `data` stands for an image payload: "new" for an image of the run in
\* progress, "old" for an image of an earlier run.  `msg` is the kind of
\* message a string carries.
Bytes(d)  == [tag |-> "bytes", data |-> d, msg |-> ""]
Str(kind) == [tag |-> "str", data |-> "", msg |-> kind]
NoneVal   == [tag |-> "none", data |-> "", msg |-> ""]
NotYet    == [tag |-> "pending", data |-> "", msg |-> ""]

\* One part of candidates[0].content.parts: whether part.inline_data and
\* part.text are truthy.
Parts == [inline_data : BOOLEAN, text : BOOLEAN]

RECURSIVE SeqsUpTo(_, _)
SeqsUpTo(S, n) ==
    IF n = 0 THEN {<<>>}
    ELSE LET shorter == SeqsUpTo(S, n - 1)
         IN shorter \cup {Append(s, x) : s \in {t \in shorter : Len(t) = n - 1}, x \in S}

\* A raw result of client.models.generate_content: it raises, or it returns a
\* response with no candidates, with a first candidate whose content is
\* missing, or with a first candidate carrying a list of parts.
ResponsesOf(n) ==
    {[kind |-> "raise", parts |-> <<>>],
     [kind |-> "no_candidates", parts |-> <<>>],
     [kind |-> "no_content", parts |-> <<>>]}
    \cup {[kind |-> "parts", parts |-> p] : p \in SeqsUpTo(Parts, n)}

Responses == ResponsesOf(MaxParts)

\* What the service answers to the calls of a run: every kind of response,
\* with at most one part.
StubResponses == ResponsesOf(1)
NoResponse == [kind |-> "unset", parts |-> <<>>]

progress_hidden == [shown |-> FALSE, num |-> 0, den |-> 1]

(* ---------------- generate_single_image (lines 64-102) ---------------- *)
\* The for loop of lines 89-96: the first part with a truthy inline_data or a
\* truthy text decides; parts with neither are skipped.
RECURSIVE scan_parts(_, _)
scan_parts(parts, data) ==
    IF parts = <<>> THEN Str("empty")
    ELSE IF Head(parts).inline_data THEN Bytes(data)
    ELSE IF Head(parts).text THEN Str("declined")
    ELSE scan_parts(Tail(parts), data)

\* A variant that forgets the final `return` of line 98.
generate_single_image_no_fallback(resp, data) ==
    CASE resp.kind = "raise"         -> Str("system")
      [] resp.kind = "no_candidates" -> NoneVal
      [] resp.kind = "no_content"    -> Str("system")
      [] resp.kind = "parts"         ->
            IF scan_parts(resp.parts, data).msg = "empty" THEN NoneVal
            ELSE scan_parts(resp.parts, data)

\* `data` is the image payload the service puts in inline_data.data.
\* A missing content makes line 89 raise AttributeError inside the try.
generate_single_image(resp, data) ==
    CASE resp.kind = "raise"         -> Str("system")
      [] resp.kind = "no_candidates" -> Str("empty")
      [] resp.kind = "no_content"    -> Str("system")
      [] resp.kind = "parts"         -> scan_parts(resp.parts, data)

(* ---------------- get_api_key (lines 52-61) ---------------- *)
Secrets == {"no_file", "no_entry", "key"}

\* env: GOOGLE_API_KEY is set and non-empty.  secret: the secrets store has no
\* file, has a file without the entry (KeyError is not caught), or has the key.
get_api_key(env, secret) ==
    IF env THEN "key"
    ELSE CASE secret = "key"      -> "key"
           [] secret = "no_file"  -> "none"
           [] secret = "no_entry" -> "KeyError"

(* ---------------- helpers of main ---------------- *)
\* line 114 without the st.stop(): an empty key is let through.
key_missing_ignored(got, typed) == FALSE

\* lines 111-116: no key from get_api_key and nothing typed in the text input.
key_missing(got, typed) == got = "none" /\ ~typed

\* line 173 checking the pose image only.
inputs_missing_pose_only(chars, pose) == ~pose

\* line 173: not char_files or not pose_file
inputs_missing(chars, pose) == ~chars \/ ~pose

workers_uncapped(n) == n

\* line 206: workers = min(num_images, 4)
workers(n) == Min(n, WorkerCap)

progress_value_off_by_one(idx, n) == [shown |-> TRUE, num |-> idx, den |-> n]

\* line 224: progress_bar.progress((i + 1) / num_images)
progress_value(idx, n) == [shown |-> TRUE, num |-> idx + 1, den |-> n]

has_results_all(res) == Len(res) = num_images

\* line 227: if results:
has_results(res) == res # <<>>

(* ---------------- futures and the pool ---------------- *)
\* The aggregator looks only at the type of a result and at the bytes of an
\* image (lines 217-222); the text of a message is shown and forgotten.
Stored(r) == [tag |-> r.tag, data |-> r.data]
Unsubmitted == [state |-> "NONE", result |-> Stored(NotYet)]
InState(s) == {j \in Jobs : fut[j].state = s}
Submitted == {j \in Jobs : fut[j].state # "NONE"}
InFlight == InState("RUNNING")

RECURSIVE Remove(_, _)
Remove(s, x) ==
    IF s = <<>> THEN <<>>
    ELSE IF Head(s) = x THEN Tail(s)
    ELSE <<Head(s)>> \o Remove(Tail(s), x)

add_result_lifo(q, j) == <<j>> \o q

\* _AsCompletedWaiter.add_result: finished futures are appended under the
\* waiter's lock, so the list is in completion order.
add_result(q, j) == Append(q, j)

as_completed_exhausted_early == snapshot = {} /\ waiter = <<>>

\* as_completed has yielded every future: the for loop of line 213 ends.
as_completed_exhausted == pending = {}

\* Every stored image is an image of an earlier run once a new run starts.
Aged(images) == [k \in 1..Len(images) |-> "old"]

(* ---------------- initial state ---------------- *)
\* Before the first script run: nothing resolved, nothing uploaded, an empty
\* session (lines 168-169 create generated_images as []).
InitSession ==
    /\ pc = "idle"
    /\ halt = "none"
    /\ api_key = FALSE
    /\ client = FALSE
    /\ char_files = FALSE
    /\ pose_file = FALSE
    /\ num_images = 0
    /\ generate_btn = FALSE
    /\ generated_images = <<>>
    /\ status = "none"
    /\ progress = progress_hidden
    /\ results = <<>>
    /\ errors = 0
    /\ fut = [j \in Jobs |-> Unsubmitted]
    /\ work_queue = <<>>
    /\ num_threads = 0
    /\ max_workers = 0
    /\ pending = {}
    /\ snapshot = {}
    /\ waiter = <<>>
    /\ installed = FALSE
    /\ i = 0
    /\ completion = <<>>

Init ==
    /\ InitSession
    /\ response = NoResponse
    /\ outcome = NotYet

(* ---------------- main: one script run up to the dispatch (lines 104-203) ---------------- *)
\* What a script run that starts no run leaves behind: nothing of a run is on
\* screen, and the previous run's executor and futures are gone.
NoRun(why) ==
    /\ pc' = "idle"
    /\ halt' = why
    /\ status' = "none"
    /\ progress' = progress_hidden
    /\ results' = <<>>
    /\ errors' = 0
    /\ fut' = [j \in Jobs |-> Unsubmitted]
    /\ work_queue' = <<>>
    /\ num_threads' = 0
    /\ max_workers' = 0
    /\ pending' = {}
    /\ snapshot' = {}
    /\ waiter' = <<>>
    /\ installed' = FALSE
    /\ i' = 0
    /\ completion' = <<>>
    /\ UNCHANGED <<generated_images, harnessVars>>

\* The widgets after an st.stop() or an uncaught exception are never read.
WidgetsUnread ==
    /\ char_files' = FALSE
    /\ pose_file' = FALSE
    /\ num_images' = 0
    /\ generate_btn' = FALSE

\* The script thread is between two script runs.
AtRest == pc \in {"idle", "done"}

\* get_api_key raises KeyError (line 58): the script run ends with the exception.
KeyLookupRaises ==
    /\ AtRest
    /\ \E env \in BOOLEAN, secret \in Secrets :
          get_api_key(env, secret) = "KeyError"
    /\ api_key' = FALSE
    /\ client' = FALSE
    /\ WidgetsUnread
    /\ NoRun("key_error")

\* lines 111-116: no key anywhere: warning and st.stop().
StopNoKey ==
    /\ AtRest
    /\ \E env \in BOOLEAN, secret \in Secrets, typed \in BOOLEAN :
          /\ get_api_key(env, secret) # "KeyError"
          /\ key_missing(get_api_key(env, secret), typed)
    /\ api_key' = FALSE
    /\ client' = FALSE
    /\ WidgetsUnread
    /\ NoRun("no_key")

\* The script gets past line 116 with the key it found or the key typed in.
PastKeyCheck ==
    \E env \in BOOLEAN, secret \in Secrets, typed \in BOOLEAN :
        /\ get_api_key(env, secret) # "KeyError"
        /\ ~key_missing(get_api_key(env, secret), typed)
        /\ api_key' = (get_api_key(env, secret) = "key" \/ typed)

\* lines 119-123: genai.Client raises: error and st.stop().
StopClientInit ==
    /\ AtRest
    /\ PastKeyCheck
    /\ client' = FALSE
    /\ WidgetsUnread
    /\ NoRun("client_init")

\* lines 120-161: the client is built and the widgets are read.
ReadWidgets(chars, pose, n, btn) ==
    /\ PastKeyCheck
    /\ client' = TRUE
    /\ char_files' = chars
    /\ pose_file' = pose
    /\ num_images' = n
    /\ generate_btn' = btn

\* line 172 false: a rerun not caused by the button renders the stored images.
RerunNoButton ==
    /\ AtRest
    /\ \E chars \in BOOLEAN, pose \in BOOLEAN, n \in Counts :
          ReadWidgets(chars, pose, n, FALSE)
    /\ NoRun("none")

\* lines 173-174: an input is missing: error, no run.
RefuseInputs ==
    /\ AtRest
    /\ \E chars \in BOOLEAN, pose \in BOOLEAN, n \in Counts :
          /\ inputs_missing(chars, pose)
          /\ ReadWidgets(chars, pose, n, TRUE)
    /\ NoRun("input_error")

\* lines 175-207: the run starts: status and progress placeholders, empty
\* results, a fresh executor with `workers` threads at most.
Dispatch ==
    /\ AtRest
    /\ \E chars \in BOOLEAN, pose \in BOOLEAN, n \in Counts :
          /\ ~inputs_missing(chars, pose)
          /\ ReadWidgets(chars, pose, n, TRUE)
          /\ max_workers' = workers(n)
    /\ pc' = "submit"
    /\ halt' = "none"
    /\ generated_images' = Aged(generated_images)
    /\ status' = "generating"
    /\ progress' = [shown |-> TRUE, num |-> 0, den |-> 1]
    /\ results' = <<>>
    /\ errors' = 0
    /\ fut' = [j \in Jobs |-> Unsubmitted]
    /\ work_queue' = <<>>
    /\ num_threads' = 0
    /\ pending' = {}
    /\ snapshot' = {}
    /\ waiter' = <<>>
    /\ installed' = FALSE
    /\ i' = 0
    /\ completion' = <<>>
    /\ UNCHANGED harnessVars

(* ---------------- the executor (lines 207-211) ---------------- *)
\* executor.submit: a new PENDING future goes on the work queue and a thread is
\* started while fewer than max_workers exist.
Submit ==
    /\ pc = "submit"
    /\ Cardinality(Submitted) < num_images
    /\ LET j == Cardinality(Submitted) + 1 IN
          /\ fut' = [fut EXCEPT ![j].state = "PENDING"]
          /\ work_queue' = Append(work_queue, j)
    /\ num_threads' = IF num_threads < max_workers THEN num_threads + 1 ELSE num_threads
    /\ UNCHANGED <<pc, halt, inputVars, generated_images, uiVars, max_workers,
                   drainVars, harnessVars>>

\* A free worker thread takes the oldest queued job and enters
\* generate_single_image: the call to the service is in flight.
WorkerTake ==
    /\ work_queue # <<>>
    /\ Cardinality(InFlight) < num_threads
    /\ fut' = [fut EXCEPT ![Head(work_queue)].state = "RUNNING"]
    /\ work_queue' = Tail(work_queue)
    /\ UNCHANGED <<pc, halt, inputVars, generated_images, uiVars, num_threads,
                   max_workers, drainVars, harnessVars>>

\* The call of job j returns or raises; generate_single_image classifies it and
\* the future is finished, which notifies the waiter if one is installed.
WorkerReturn(j) ==
    /\ fut[j].state = "RUNNING"
    /\ \E r \in {Stored(generate_single_image(resp, "new")) : resp \in StubResponses} :
          fut' = [fut EXCEPT ![j] = [state |-> "FINISHED", result |-> r]]
    /\ waiter' = IF installed THEN add_result(waiter, j) ELSE waiter
    /\ completion' = Append(completion, j)
    /\ UNCHANGED <<pc, halt, inputVars, generated_images, uiVars, work_queue,
                   num_threads, max_workers, pending, snapshot, installed, i,
                   harnessVars>>

(* ---------------- the aggregating loop (lines 213-224) ---------------- *)
\* First next() on as_completed(futures): the futures already finished are
\* collected in a set and the waiter is installed on all of them.
AsCompletedStart ==
    /\ pc = "submit"
    /\ Cardinality(Submitted) = num_images
    /\ snapshot' = InState("FINISHED")
    /\ pending' = 1..num_images
    /\ installed' = TRUE
    /\ waiter' = <<>>
    /\ pc' = "drain"
    /\ UNCHANGED <<halt, inputVars, generated_images, uiVars, poolVars, i,
                   completion, harnessVars>>

\* The futures as_completed may yield next.  The snapshot is a set turned into
\* a list, so its futures come out in no particular order; the futures that
\* finish later come out in the order the waiter received them.
CanYield ==
    IF snapshot # {} THEN snapshot
    ELSE IF waiter # <<>> THEN {Head(waiter)}
    ELSE {}

\* Iteration of the for loop on future j: future.result(), the isinstance
\* dispatch and the progress update.  The future is not looked at again.
Iterate(j) ==
    LET result == fut[j].result
    IN /\ snapshot' = snapshot \ {j}
       /\ waiter' = IF snapshot # {} THEN waiter ELSE Tail(waiter)
       /\ pending' = pending \ {j}
       /\ results' = IF result.tag = "bytes" THEN Append(results, result.data)
                     ELSE results
       /\ errors' = IF result.tag = "str" THEN errors + 1 ELSE errors
       /\ fut' = [fut EXCEPT ![j] = [state |-> "CONSUMED", result |-> Stored(NotYet)]]
       /\ completion' = Remove(completion, j)
       /\ progress' = progress_value(i, num_images)
       /\ i' = i + 1

LoopBody ==
    /\ pc = "drain"
    /\ \E j \in CanYield : Iterate(j)
    /\ UNCHANGED <<pc, halt, inputVars, generated_images, status, work_queue,
                   num_threads, max_workers, installed, harnessVars>>

(* ---------------- after the loop (lines 226-233) ---------------- *)
\* The with block ends (the executor joins its threads), the results are saved
\* or the aggregate notice is shown, and the progress bar is removed.
SaveResults ==
    /\ pc = "drain"
    /\ as_completed_exhausted
    /\ num_threads' = 0
    /\ IF has_results(results)
       THEN /\ generated_images' = results
            /\ status' = "success"
       ELSE /\ generated_images' = generated_images
            /\ status' = "all_failed"
    /\ progress' = progress_hidden
    /\ pc' = "done"
    /\ UNCHANGED <<halt, inputVars, results, errors, fut, work_queue, max_workers,
                   drainVars, harnessVars>>

Next ==
    \/ KeyLookupRaises
    \/ StopNoKey
    \/ StopClientInit
    \/ RerunNoButton
    \/ RefuseInputs
    \/ Dispatch
    \/ Submit
    \/ WorkerTake
    \/ \E j \in Jobs : WorkerReturn(j)
    \/ AsCompletedStart
    \/ LoopBody
    \/ SaveResults

\* The program: any number of script runs in one session.
Spec == Init /\ [][Next]_vars

\* The script runs of a session that holds no image yet: a script run starts
\* only while st.session_state.generated_images is empty, and runs to its end.
Fresh == generated_images = <<>>

FreshNext ==
    \/ Fresh /\ KeyLookupRaises
    \/ Fresh /\ StopNoKey
    \/ Fresh /\ StopClientInit
    \/ Fresh /\ RerunNoButton
    \/ Fresh /\ RefuseInputs
    \/ Fresh /\ Dispatch
    \/ Submit
    \/ WorkerTake
    \/ \E j \in Jobs : WorkerReturn(j)
    \/ AsCompletedStart
    \/ LoopBody
    \/ SaveResults

FreshSpec == Init /\ [][FreshNext]_vars

\* A step of a run in progress: of the script thread inside the with block or
\* of a worker thread.
RunStep ==
    \/ Submit
    \/ WorkerTake
    \/ \E j \in Jobs : WorkerReturn(j)
    \/ AsCompletedStart
    \/ LoopBody
    \/ SaveResults

\* Scheduling: while a thread of a run can take a step, some thread of the run
\* does in the end (threads are scheduled, and every call to the service returns
\* or raises in the end).
Fairness == WF_vars(RunStep)

FairSpec == FreshSpec /\ Fairness

(* ---------------- generate_single_image on its own ---------------- *)
\* One call of generate_single_image on a response of the service.
InitClassify ==
    /\ InitSession
    /\ response \in Responses
    /\ outcome = NotYet

Classify ==
    /\ outcome = NotYet
    /\ response # NoResponse
    /\ outcome' = generate_single_image(response, "new")
    /\ UNCHANGED <<pc, halt, inputVars, generated_images, uiVars, poolVars, drainVars,
                   response>>

NextCall ==
    /\ outcome # NotYet
    /\ response' \in Responses
    /\ outcome' = NotYet
    /\ UNCHANGED <<pc, halt, inputVars, generated_images, uiVars, poolVars, drainVars>>

ClassifyNext == Classify \/ NextCall

ClassifySpec == InitClassify /\ [][ClassifyNext]_vars

(* ---------------- vocabulary of the properties ---------------- *)
RunJobs == 1..num_images
InRun == pc \in {"submit", "drain"}
Dispatched == pc \in {"submit", "drain", "done"}
Finished(j) == fut[j].state \in {"FINISHED", "CONSUMED"}
AllFinished == \A j \in RunJobs : Finished(j)
AllCollected == \A j \in RunJobs : fut[j].state = "CONSUMED"
Range(q) == {q[k] : k \in 1..Len(q)}
\* The loop takes future j in this step.
Yielded(j) == fut[j].state = "FINISHED" /\ fut'[j].state = "CONSUMED"
\* The jobs that finished before j and are still to be reported.
Before(j) == {completion[k] : k \in {m \in 1..Len(completion) :
                                      \E n \in (m + 1)..Len(completion) : completion[n] = j}}
FatalHalts == {"no_key", "client_init", "key_error"}

TypeOK ==
    /\ pc \in {"idle", "submit", "drain", "done"}
    /\ halt \in {"none", "input_error"} \cup FatalHalts
    /\ num_images \in {0} \cup Counts
    /\ \A j \in Jobs : fut[j].state \in {"NONE", "PENDING", "RUNNING", "FINISHED", "CONSUMED"}
    /\ status \in {"none", "generating", "success", "all_failed"}
    /\ errors \in 0..MaxImages
    /\ i \in 0..MaxImages

(* ---------------- C1 ---------------- *)
\* C1: a run of N jobs yields exactly N outcomes, one per submitted job; every
\* outcome is bytes (success) or str (failure); while the loop drains, the
\* outcomes counted so far are those of the futures it has taken, each once;
\* at the end every job of the run has been counted.
C1_ExactlyNOutcomes ==
    /\ \A j \in Jobs : fut[j].state = "FINISHED" => fut[j].result.tag \in {"bytes", "str"}
    /\ Dispatched =>
          /\ Submitted \subseteq RunJobs
          /\ Len(results) + errors = Cardinality(InState("CONSUMED"))
          /\ i = Cardinality(InState("CONSUMED"))
    /\ pc \in {"drain", "done"} =>
          /\ Submitted = RunJobs
          /\ pending = RunJobs \ InState("CONSUMED")
    /\ pc = "done" =>
          /\ AllCollected
          /\ Len(results) + errors = num_images

\* A run of more jobs than threads ended with successes and failures.
C1_Witness ==
    /\ pc = "done"
    /\ num_images > WorkerCap
    /\ Len(results) >= 1
    /\ errors >= 1

(* ---------------- C2 ---------------- *)
\* C2: the calls in flight never exceed min(N, 4); the jobs not yet taken by a
\* thread are exactly those on the work queue, and a job waits there only
\* while every thread of the pool is busy or about to take it.
C2_BoundedInFlight ==
    /\ Cardinality(InFlight) <= Min(num_images, WorkerCap)
    /\ num_threads <= Min(num_images, WorkerCap)
    /\ InState("PENDING") = Range(work_queue)
    /\ Cardinality(InFlight) <= num_threads

\* Four calls are in flight and a fifth job waits on the queue.
C2_Witness ==
    /\ Cardinality(InFlight) = WorkerCap
    /\ work_queue # <<>>
    /\ num_images > WorkerCap

(* ---------------- C3 ---------------- *)
\* C3: after a run has completed, st.session_state.generated_images holds
\* only images of that run: none is an image of an earlier run.
C3_OnlyLatestRun ==
    pc = "done" => \A k \in 1..Len(generated_images) : generated_images[k] = "new"

(* ---------------- C4 ---------------- *)
\* The progress bar shows at least as much after the step as before it.
ProgressGrows == progress'.num * progress.den >= progress.num * progress'.den
ProgressFull == progress.shown /\ progress.num = progress.den

\* C4: during a run the progress value never decreases; every iteration of
\* the loop, whatever the outcome it takes, sets it to (iterations so far)/N;
\* it is N/N only when all N jobs have finished, and it is N/N as soon as the
\* loop has taken the last of them and when the loop ends.
C4_Progress ==
    /\ [][(InRun /\ pc' \in {"submit", "drain"}) => ProgressGrows]_vars
    /\ [][(InRun /\ i' # i) =>
            /\ i' = i + 1
            /\ progress' = [shown |-> TRUE, num |-> i', den |-> num_images]]_vars
    /\ [][(\E j \in Jobs : Yielded(j)) => i' = i + 1]_vars
    /\ []((InRun /\ ProgressFull) => (AllFinished /\ progress.den = num_images))
    /\ []((InRun /\ AllCollected) => ProgressFull)
    /\ [][(pc = "drain" /\ pc' = "done") => ProgressFull]_vars

\* The bar is full at the end of a run of several jobs in which the loop took
\* successes and failures.
C4_Witness ==
    /\ pc = "drain"
    /\ ProgressFull
    /\ num_images >= 3
    /\ Len(results) >= 1
    /\ errors >= 1

(* ---------------- C5 ---------------- *)
HasBinary(resp) == \E k \in 1..Len(resp.parts) : resp.parts[k].inline_data
HasText(resp) == \E k \in 1..Len(resp.parts) : resp.parts[k].text

\* C5: a response with a binary payload is a success; a text-only response is
\* a failure carrying the text; no candidates or no usable part is the
\* empty-response failure; a call that raises is the stringified-error
\* failure.  (A candidate without content may be reported as either failure.)
C5_Classification ==
    outcome # NotYet =>
        CASE response.kind = "raise"         -> outcome = Str("system")
          [] response.kind = "no_candidates" -> outcome = Str("empty")
          [] response.kind = "no_content"    -> outcome.tag = "str"
          [] response.kind = "parts"         ->
                IF HasBinary(response) THEN outcome = Bytes("new")
                ELSE IF HasText(response) THEN outcome = Str("declined")
                ELSE outcome = Str("empty")

(* ---------------- C6 ---------------- *)
\* No step cancels or alters a job: a queued job stays queued or starts, a
\* running job runs or finishes, a finished job keeps its result until the
\* loop takes it.
SiblingsUntouched ==
    \A j \in Jobs :
        /\ fut[j].state = "PENDING" => fut'[j].state \in {"PENDING", "RUNNING"}
        /\ fut[j].state = "RUNNING" => fut'[j].state \in {"RUNNING", "FINISHED"}
        /\ fut[j].state = "FINISHED" => \/ fut'[j] = fut[j]
                                        \/ fut'[j].state = "CONSUMED"

\* C6: failures leave sibling jobs alone; the aggregate notice is shown if and
\* only if the run collected no success, only by the step that ends the run,
\* after all N jobs were collected; a run with a success shows no notice and
\* stores its successes.
C6_AggregateNotice ==
    /\ [][SiblingsUntouched]_vars
    /\ [][(status' = "all_failed" /\ ~UNCHANGED vars) =>
            /\ pc = "drain" /\ pc' = "done"
            /\ status = "generating"
            /\ AllCollected
            /\ errors = num_images]_vars
    /\ [](status = "all_failed" => (pc = "done" /\ results = <<>>))
    /\ [](pc = "done" =>
            /\ status = "all_failed" <=> results = <<>>
            /\ status = "success" <=> results # <<>>
            /\ results # <<>> => generated_images = results)

\* Every job of a run of several jobs failed: N failures, no success, the notice.
C6_Witness ==
    /\ pc = "done"
    /\ num_images >= 3
    /\ errors = num_images
    /\ results = <<>>
    /\ status = "all_failed"

(* ---------------- C7 ---------------- *)
\* The phase of the run: Dispatching while some job still waits for a thread,
\* Draining once every job has been handed to a thread.
Phase ==
    CASE pc = "idle" -> "Idle"
      [] pc = "done" -> "Done"
      [] InRun /\ (Submitted # RunJobs \/ work_queue # <<>>) -> "Dispatching"
      [] InRun /\ Submitted = RunJobs /\ work_queue = <<>> -> "Draining"

PhaseOrder ==
    /\ Phase = "Idle"        => Phase' \in {"Idle", "Dispatching"}
    /\ Phase = "Dispatching" => Phase' \in {"Dispatching", "Draining"}
    /\ Phase = "Draining"    => Phase' \in {"Draining", "Done"}
    /\ Phase = "Done"        => Phase' \in {"Done", "Idle", "Dispatching"}

\* C7: a run goes Idle -> Dispatching -> Draining -> Done and no step takes it
\* anywhere else (no cancellation); it is Done only after all N jobs have
\* produced an outcome that the loop collected; and, with fair scheduling and
\* calls that return, every dispatched run reaches Done.
C7_RunsToCompletion ==
    /\ [][PhaseOrder]_vars
    /\ [][InRun => (num_images' = num_images /\ Submitted \subseteq Submitted')]_vars
    /\ [](pc = "done" => (AllCollected /\ i = num_images /\ work_queue = <<>>))
    /\ InRun ~> (pc = "done")

\* A run of more jobs than threads is Done.
C7_Witness ==
    /\ Phase = "Done"
    /\ num_images > WorkerCap
    /\ AllCollected

(* ---------------- C8 ---------------- *)
\* C8: the loop takes the outcomes in completion order: the future it takes is
\* always the one that finished first among those not yet taken.
C8_CompletionOrder ==
    [][\A j \in Jobs : Yielded(j) => j = Head(completion)]_vars

\* C8 as amended: a future that finished after as_completed started is taken
\* only when no future that finished before it is left; a future that had
\* finished before as_completed started may be taken ahead of others of that
\* kind only, and all of those are taken before any later one.
C8_CompletionOrderAfterStart ==
    [][\A j \in Jobs : Yielded(j) =>
          /\ Before(j) \subseteq snapshot
          /\ j \notin snapshot => (snapshot = {} /\ j = Head(completion))]_vars

\* The loop has taken a future, and two futures that finished after it
\* started wait to be taken, in the order they finished.
C8_Witness ==
    /\ pc = "drain"
    /\ i >= 1
    /\ snapshot = {}
    /\ Len(waiter) >= 2
    /\ waiter = completion

(* ---------------- C9 ---------------- *)
\* C9: a script run stopped by a missing key, a failed client construction or
\* a failed key lookup submits nothing, shows no progress and leaves the
\* stored images alone; a run exists only with a key and a client; and what a
\* worker hands to the loop is always bytes or str, whatever the call did.
C9_FatalStopsBeforeDispatch ==
    /\ [](halt \in FatalHalts =>
            /\ pc = "idle"
            /\ Submitted = {}
            /\ work_queue = <<>>
            /\ num_threads = 0
            /\ ~progress.shown
            /\ status = "none"
            /\ results = <<>>)
    /\ [][halt' \in FatalHalts => generated_images' = generated_images]_vars
    /\ []((Dispatched \/ Submitted # {}) => (api_key /\ client /\ halt = "none"))
    /\ [](\A j \in Jobs : fut[j].state = "FINISHED" =>
             fut[j].result.tag \in {"bytes", "str"})

\* The script stopped for want of a key.
C9_Witness ==
    /\ halt = "no_key"
    /\ pc = "idle"
    /\ ~api_key
    /\ Submitted = {}

(* ---------------- C10 ---------------- *)
\* C10: whenever generation is triggered with a pose image present, a run is
\* dispatched, with or without character images.
C10_PoseSuffices ==
    (generate_btn /\ pose_file) => Dispatched

\* C10 as amended: when generation is triggered, a run is dispatched if and
\* only if at least one character image and the pose image are present;
\* otherwise the script shows the input error and submits nothing.
C10_BothInputsRequired ==
    generate_btn =>
        IF char_files /\ pose_file
        THEN Dispatched /\ halt = "none"
        ELSE pc = "idle" /\ halt = "input_error" /\ Submitted = {}

\* Generation was triggered with a pose image and no character image, and
\* was refused.
C10_Witness ==
    /\ generate_btn
    /\ pose_file
    /\ ~char_files
    /\ halt = "input_error"
    /\ pc = "idle"
====
